---- MODULE Spec2Model ----
(***************************************************************************)
(* saba-docker-io: the attach bridge of src/docker/saba-docker-io/main.go. *)
(*                                                                         *)
(* main() is one sequential program.  It is cut into steps at the points   *)
(* where something outside it acts: the log subprocess it spawns and waits *)
(* for, the file system that exec.Command, exec.LookPath and syscall.Exec  *)
(* consult, and the attach program that replaces it.                       *)
(***************************************************************************)
EXTENDS Integers, Sequences, FiniteSets, TLC

(* ---------------------------------------------------------------- bounds *)

\* writes the log subprocess may make before it exits
MaxLogLines == 2

\* bytes the attach program may relay after it replaced the bridge
MaxLiveBytes == 2

\* bytes the supervisor may send on the bridge's stdin
MaxInputBytes == 2

(* ------------------------------------------------------------- constants *)

defaultDocker == "/opt/saba-chan/docker/docker"

\* variant: no tail length, the whole log is asked for
initialLogTailAll == "all"


initialLogTail == "200"

UsageExit == 1

RuntimeNotFoundExit == 2

\* variant: the failed transfer reuses the resolution's status
ExecFailedExitDup == RuntimeNotFoundExit

ExecFailedExit == 3

(* ----------------------------------------------------------- environment *)

\* What the runtime name designates on the file system:
\*   missing    no such file
\*   nonexec    a regular file without execute permission
\*   badformat  a regular file with execute permission that execve rejects
\*   exec_ok    a runnable program
FileKinds == {"missing", "nonexec", "badformat", "exec_ok"}

Containers == {"mc", "-x", ""}

Runtimes == {"/usr/local/bin/docker", "docker", ""}

ExtraArgs == {"extra"}

ProgName == "saba-docker-io"

\* the environments the bridge may be started with
Environs == {<<"PATH=/usr/bin">>, <<"PATH=/usr/bin", "TERM=xterm">>}

\* the process the supervisor spawned
BridgePid == "bridge_pid"

\* descriptors 0, 1 and 2 as the supervisor handed them over
InheritedFds == <<"stdin", "stdout", "stderr">>

\* how many lines the container has logged before the bridge starts: none,
\* fewer than the tail, more than the tail
Histories == {0, 1, 201}

\* the k-th byte the supervisor sends: consecutive bytes differ
InputByte(k) == IF k % 2 = 1 THEN "a" ELSE "b"

\* os.Args of every length from 0 to 4
ArgVectors ==
    {<<>>, <<ProgName>>}
    \cup {<<ProgName, c>> : c \in Containers}
    \cup {<<ProgName, c, r>> : c \in Containers, r \in Runtimes}
    \cup {<<ProgName, c, r, x>> : c \in Containers, r \in Runtimes, x \in ExtraArgs}

VARIABLES
    args,        \* os.Args
    pc,          \* position of main(): start, logs, wait, resolve, exec, exited,
                 \* replaced; killed once a signal has ended the process
    container,   \* local variable container
    docker,      \* local variable docker
    dockerPath,  \* local variable dockerPath
    runErr,      \* the value logs.Run() returned (discarded by main)
    fileKind,    \* what the runtime name designates on the file system
    logProc,     \* the log subprocess: none, running, exited
    logStatus,   \* exit status of the log subprocess
    stdout,      \* what was written to descriptor 1, in order, by writer
    stderr,      \* what was written to descriptor 2, in order
    exits,       \* the statuses passed to os.Exit
    logCalls,    \* the commands run through exec.Command(...).Run()
    lookCalls,   \* the calls of exec.LookPath with what they found
    execCalls,   \* the calls of syscall.Exec
    environ,     \* the environment of the process (os.Environ())
    proc,        \* the process: its identifier, the program it runs, descriptors 0-2
    history,     \* lines of output the container has produced so far
    stdinSent,   \* every byte the supervisor wrote on the bridge's stdin
    stdinBuf,    \* the bytes of stdinSent nobody has read yet
    containerIn, \* the bytes that arrived on the container's stdin
    containerSignals, \* the signals delivered to the container's process
    gui          \* the host application's view: the component rendered last,
                 \* the props it was given and the element it returned

vars == <<args, pc, container, docker, dockerPath, runErr, fileKind, logProc,
          logStatus, stdout, stderr, exits, logCalls, lookCalls, execCalls,
          environ, proc, history, stdinSent, stdinBuf, containerIn,
          containerSignals, gui>>

Terminal == {"exited", "replaced"}

ReplayStage == {"logs", "wait"}

RelayStage == {"resolve", "exec"}

(* --------------------------------------------------------------- helpers *)

\* len(os.Args) < 2
NeedsUsage(a) == Len(a) < 2

\* variant: the index is off by one and reads the program name
ContainerArgFromProg(a) == a[1]

\* container := os.Args[1]
ContainerArg(a) == a[2]

\* variant: the runtime argument is never read
DockerArgIgnored(a) == defaultDocker


\* variant: the runtime is read from the last argument
DockerArgLast(a) == IF Len(a) >= 3 THEN a[Len(a)] ELSE defaultDocker

\* docker := defaultDocker; if len(os.Args) >= 3 { docker = os.Args[2] }
DockerArg(a) == IF Len(a) >= 3 THEN a[3] ELSE defaultDocker

\* the empty name designates nothing; any other name designates the file
FileKindOf(name) == IF name = "" THEN "missing" ELSE fileKind

\* variant: the lookup checks existence only, not execute permission
FindExecutableExistsOnly(kind) == kind # "missing"

\* os/exec findExecutable: the file exists and has execute permission
FindExecutable(kind) == kind \in {"badformat", "exec_ok"}

\* exec.LookPath: a name with a slash is returned as is, a bare name is
\* returned joined to the PATH directory that holds it
ResolvedPath(name) == IF name = "docker" THEN "/usr/bin/docker" ELSE name

\* execve succeeds only on a runnable program
CanExec(kind) == kind = "exec_ok"

LogLines == Len(SelectSeq(stdout, LAMBDA w : w.by = "log"))

LiveBytes == Len(SelectSeq(stdout, LAMBDA w : w.by = "attach"))

\* variant: the attach program is started as a child process on pipes
SpawnImage(p) == [pid |-> "child_pid", image |-> "attach", fds |-> <<"pipe", "pipe", "pipe">>]

\* execve: the process keeps its identifier and descriptors 0-2 and runs the
\* new program
ExecImage(p) == [p EXCEPT !.image = "attach"]

\* the sizes of the runs of lines the log subprocess writes at once
ChunkSizes == {1, 200}

RECURSIVE SumLines(_)
\* the log lines in a sequence of writes
SumLines(q) ==
    IF q = <<>> THEN 0
    ELSE (IF Head(q).by = "log" THEN Head(q).n ELSE 0) + SumLines(Tail(q))

\* the log lines written to descriptor 1 so far
LogLinesEmitted == SumLines(stdout)

\* docker logs --tail N: the last N lines of the container's log, all of
\* them when N is not a number
Allowance(argv) ==
    IF \E i \in 1..(Len(argv) - 1) : argv[i] = "--tail" /\ argv[i + 1] = "200"
      THEN (IF history < 200 THEN history ELSE 200)
      ELSE history

\* docker logs --timestamps: every line carries its timestamp
HasTimestamps(argv) == \E i \in 1..Len(argv) : argv[i] = "--timestamps"

(* ------------------------------------------------------------------ Init *)


(* ------------------------------------------------- values of the GUI code *)

\* the values the components handle: undefined, null, booleans, numbers,
\* NaN and strings
Undefined == [t |-> "undefined", n |-> 0, s |-> ""]

Null == [t |-> "null", n |-> 0, s |-> ""]

JSTrue == [t |-> "boolean", n |-> 1, s |-> ""]

JSFalse == [t |-> "boolean", n |-> 0, s |-> ""]

NaN == [t |-> "NaN", n |-> 0, s |-> ""]

Num(k) == [t |-> "number", n |-> k, s |-> ""]

Str(x) == [t |-> "string", n |-> 0, s |-> x]

\* the value as a condition: !x is ~Truthy(x)
Truthy(x) ==
    CASE x.t = "undefined" -> FALSE
      [] x.t = "null"      -> FALSE
      [] x.t = "boolean"   -> x.n = 1
      [] x.t = "number"    -> x.n # 0
      [] x.t = "NaN"       -> FALSE
      [] x.t = "string"    -> x.s # ""

\* x == null
IsNullish(x) == x.t \in {"undefined", "null"}

\* the element a component returns when it renders nothing
NullElement == [el |-> "null"]

\* no component has rendered yet
Unmounted == [op |-> "unmounted"]



\* Number(x), as Math.max and Math.min apply it to an argument
ToNumber(x) ==
    CASE x.t = "undefined" -> NaN
      [] x.t = "null"      -> Num(0)
      [] x.t = "boolean"   -> Num(x.n)
      [] x.t = "number"    -> x
      [] x.t = "NaN"       -> NaN
      [] x.t = "string"    -> IF x.s = "" THEN Num(0) ELSE NaN

\* Math.max(a, b): NaN when either argument is
MathMax(a, b) ==
    LET x == ToNumber(a)
        y == ToNumber(b)
    IN  IF x.t = "NaN" \/ y.t = "NaN" THEN NaN
        ELSE IF x.n >= y.n THEN x ELSE y

\* Math.min(a, b): NaN when either argument is
MathMin(a, b) ==
    LET x == ToNumber(a)
        y == ToNumber(b)
    IN  IF x.t = "NaN" \/ y.t = "NaN" THEN NaN
        ELSE IF x.n <= y.n THEN x ELSE y

\* a < b on numbers: false when either is NaN
LessThan(a, b) ==
    LET x == ToNumber(a)
        y == ToNumber(b)
    IN  x.t = "number" /\ y.t = "number" /\ x.n < y.n

\* a > b on numbers: false when either is NaN
GreaterThan(a, b) == LessThan(b, a)

(* ---------------------------------------------------------- MemoryGauge *)

\* the ends of the gauge's scale
GaugeMin == 0

GaugeMax == 100

\* below this the gauge is green
GreenBelow == 60

\* below this, and not green, the gauge is orange
OrangeBelow == 85

\* how far beyond the scale the percent inputs reach
Overshoot == 3

\* the numbers given as percent
PercentValues == (GaugeMin - Overshoot)..(GaugeMax + Overshoot)

\* the values given as percent: omitted, null, NaN, or a number
Percents == {Undefined, Null, NaN} \cup {Num(k) : k \in PercentValues}

\* { percent = 0 }: the default stands in for an omitted prop
PercentProp(percent) == IF percent.t = "undefined" THEN Num(0) ELSE percent


\* variant: only the upper end is clamped
ClampUpperOnly(percent) == MathMin(Num(GaugeMax), percent)

\* const pct = Math.min(100, Math.max(0, percent))
Clamp(percent) == MathMin(Num(GaugeMax), MathMax(Num(GaugeMin), percent))

\* const color = pct < 60 ? '#4caf50' : pct < 85 ? '#ff9800' : '#f44336'
GaugeColor(pct) ==
    IF LessThan(pct, Num(GreenBelow)) THEN "#4caf50"
    ELSE IF LessThan(pct, Num(OrangeBelow)) THEN "#ff9800"
    ELSE "#f44336"

\* const valArc = pct > 0 ? arcPath(angleAt(0), angleAt(pct), radius) : '';
\* the path element of the value arc is rendered under the same condition
ValArc(pct) ==
    IF GreaterThan(pct, Num(0))
      THEN [drawn |-> TRUE, from |-> Num(0), to |-> pct]
      ELSE [drawn |-> FALSE, from |-> Num(0), to |-> Num(0)]

\* what MemoryGauge draws for a percent
MemoryGauge(percent) ==
    LET pct == Clamp(PercentProp(percent))
    IN  [el |-> "memory-gauge", pct |-> pct, color |-> GaugeColor(pct),
         valArc |-> ValArc(pct), needle |-> pct]

(* ------------------------------------------- the server card's components *)

\* no server prop
NoServer ==
    [present |-> FALSE, ext |-> FALSE, docker_enabled |-> Undefined,
     provisioning |-> Undefined, status |-> "stopped", stats |-> "none",
     memory_percent |-> Undefined]

\* the server objects: with or without extension_data, with
\* extension_status absent, without a docker entry, or with one
Servers ==
    {NoServer} \cup
    {sv \in [present : {TRUE}, ext : BOOLEAN,
             docker_enabled : {Undefined, JSFalse, JSTrue},
             provisioning : {Undefined, JSFalse, JSTrue},
             status : {"running", "stopped"},
             stats : {"none", "no_docker", "docker"},
             memory_percent : {Undefined, Null, Num(0), Num(72)}] :
        /\ ~sv.ext => sv.docker_enabled = Undefined
        /\ sv.stats # "docker" => sv.memory_percent = Undefined}

\* server?.extension_data?.docker_enabled
DockerEnabled(server) ==
    IF ~server.present THEN Undefined
    ELSE IF ~server.ext THEN Undefined
    ELSE server.docker_enabled

\* server.extension_status?.docker?.memory_percent
MemoryPercent(server) ==
    IF server.stats # "docker" THEN Undefined ELSE server.memory_percent


\* variant: the gauge does not look at server.provisioning
DockerMiniGaugeWhileProvisioning(server) ==
    IF ~Truthy(DockerEnabled(server)) THEN NullElement
    ELSE IF server.status # "running" THEN NullElement
    ELSE IF IsNullish(MemoryPercent(server)) THEN NullElement
    ELSE [el |-> "MemoryGauge", compact |-> TRUE,
          gauge |-> MemoryGauge(MemoryPercent(server))]

\* part_000 8-25
DockerMiniGauge(server) ==
    IF ~Truthy(DockerEnabled(server)) THEN NullElement
    ELSE IF Truthy(server.provisioning) THEN NullElement
    ELSE IF server.status # "running" THEN NullElement
    ELSE IF IsNullish(MemoryPercent(server)) THEN NullElement
    ELSE [el |-> "MemoryGauge", compact |-> TRUE,
          gauge |-> MemoryGauge(MemoryPercent(server))]


\* variant: the row tests !memory_percent, which also rejects 0
DockerStatsRowFalsyCheck(server) ==
    IF ~Truthy(DockerEnabled(server)) THEN NullElement
    ELSE IF server.status # "running" THEN NullElement
    ELSE IF ~Truthy(MemoryPercent(server)) THEN NullElement
    ELSE [el |-> "docker-stats-row", compact |-> FALSE,
          gauge |-> MemoryGauge(MemoryPercent(server))]

\* DockerStatsRow.js 8-29
DockerStatsRow(server) ==
    IF ~Truthy(DockerEnabled(server)) THEN NullElement
    ELSE IF server.status # "running" THEN NullElement
    ELSE IF IsNullish(MemoryPercent(server)) THEN NullElement
    ELSE [el |-> "docker-stats-row", compact |-> FALSE,
          gauge |-> MemoryGauge(MemoryPercent(server))]

(* ------------------------------------------------------ DockerProvision *)

DEFAULT_STEPS == <<"docker_engine", "steamcmd", "compose">>

\* the step used when the progress reports none
NoStep == -1

\* the largest step index a progress object reports
MaxStep == 4

\* no provisionProgress prop
NoProgress ==
    [present |-> FALSE, step |-> Undefined, done |-> Undefined,
     error |-> Undefined, has_steps |-> FALSE, steps |-> <<>>]

\* the progress objects: a step index or none, done or not, an error or
\* none, and the default steps, an empty list of steps or a list of two
Progresses ==
    {NoProgress} \cup
    {[present |-> TRUE, step |-> st, done |-> d, error |-> e,
      has_steps |-> sp[1], steps |-> sp[2]] :
        st \in {Undefined, Null} \cup {Num(k) : k \in 0..MaxStep},
        d \in {Undefined, JSFalse, JSTrue},
        e \in {Undefined, Str(""), Str("pull failed")},
        sp \in {<<FALSE, <<>>>>, <<TRUE, <<>>>>, <<TRUE, <<"pull", "start">>>>}}

\* provisionProgress?.steps || DEFAULT_STEPS (an empty array is truthy)
StepsOf(progress) ==
    IF progress.present /\ progress.has_steps THEN progress.steps ELSE DEFAULT_STEPS

\* provisionProgress?.step ?? -1
CurrentStep(progress) ==
    IF IsNullish(progress.step) THEN NoStep ELSE progress.step.n

\* provisionProgress?.done && !provisionProgress?.error
IsDone(progress) == Truthy(progress.done) /\ ~Truthy(progress.error)


\* variant: the current step itself counts as completed
StepClassInclusive(progress, idx) ==
    IF IsDone(progress) \/ idx <= CurrentStep(progress) THEN "completed"
    ELSE IF idx = CurrentStep(progress)
      THEN (IF Truthy(progress.error) THEN "error" ELSE "active")
    ELSE "pending"

\* part_000 76-78
StepClass(progress, idx) ==
    IF IsDone(progress) \/ idx < CurrentStep(progress) THEN "completed"
    ELSE IF idx = CurrentStep(progress)
      THEN (IF Truthy(progress.error) THEN "error" ELSE "active")
    ELSE "pending"

\* steps.map((stepLabel, idx) => ...): idx counts from 0
StepClasses(progress) ==
    [i \in 1..Len(StepsOf(progress)) |-> StepClass(progress, i - 1)]

\* part_000 62-118
DockerProvision(server, progress) ==
    IF ~Truthy(DockerEnabled(server)) THEN NullElement
    ELSE IF ~Truthy(server.provisioning) THEN NullElement
    ELSE [el |-> "sc-provision-wrap",
          labels |-> StepsOf(progress),
          steps |-> StepClasses(progress),
          errorRow |-> Truthy(progress.error)]



(* ------------------------------------------------------------ DockerTab *)

\* the keys of _extension_data
ExtKeys == {"docker_cpu_limit", "docker_memory_limit", "docker_image"}

\* marks a key the object does not have
Absent == [t |-> "absent", n |-> 0, s |-> ""]

\* {}
EmptyObject == [k \in ExtKeys |-> Absent]

\* the _extension_data objects
ExtDatas ==
    {e \in [ExtKeys -> {Absent, Null, Num(0), Num(2), Str(""), Str("4g"), Str("img")}] :
        /\ e["docker_cpu_limit"] \in {Absent, Null, Num(0), Num(2)}
        /\ e["docker_memory_limit"] \in {Absent, Null, Str(""), Str("4g")}
        /\ e["docker_image"] \in {Absent, Str("img")}}

\* no settings prop
NoSettings == [present |-> FALSE, ext_kind |-> "undefined", ext |-> EmptyObject]

\* the settings objects: _extension_data missing, null, or an object
Settings ==
    {NoSettings} \cup
    {[present |-> TRUE, ext_kind |-> k, ext |-> EmptyObject] : k \in {"undefined", "null"}} \cup
    {[present |-> TRUE, ext_kind |-> "object", ext |-> e] : e \in ExtDatas}

\* the tabs of the settings dialog
Tabs == {"general", "docker"}

\* what the user may leave in the CPU field (type="number": digits or empty)
CpuTexts == {"", "0", "2", "16"}

\* what the user may leave in the memory field
MemTexts == {"", "4g", "512m"}

\* Number(text)
NumberOf(text) ==
    CASE text = ""   -> Num(0)
      [] text = "0"  -> Num(0)
      [] text = "2"  -> Num(2)
      [] text = "16" -> Num(16)
      [] OTHER       -> NaN

\* String(x)
StringOf(x) ==
    CASE x.t = "string" -> x
      [] x.t = "number" /\ x.n = 0  -> Str("0")
      [] x.t = "number" /\ x.n = 2  -> Str("2")
      [] x.t = "number" /\ x.n = 16 -> Str("16")
      [] OTHER -> Str(x.t)

\* obj.key: undefined when the object has no such key
Get(obj, key) == IF obj[key] = Absent THEN Undefined ELSE obj[key]

\* settings?._extension_data || {}
ExtDataOf(settings) ==
    IF settings.present /\ settings.ext_kind = "object" THEN settings.ext ELSE EmptyObject

\* extData.docker_cpu_limit != null ? String(extData.docker_cpu_limit) : ''
CpuLimit(extData) ==
    IF ~IsNullish(Get(extData, "docker_cpu_limit"))
      THEN StringOf(Get(extData, "docker_cpu_limit"))
      ELSE Str("")

\* extData.docker_memory_limit || ''
MemLimit(extData) ==
    IF Truthy(Get(extData, "docker_memory_limit"))
      THEN Get(extData, "docker_memory_limit")
      ELSE Str("")

\* variant: the report holds the edited key only
UpdateExtDataAlone(extData, key, value) ==
    [k \in ExtKeys |-> IF k = key THEN value ELSE Absent]

\* { ...extData, [key]: value }
UpdateExtData(extData, key, value) ==
    [k \in ExtKeys |-> IF k = key THEN value ELSE extData[k]]

\* e.target.value ? Number(e.target.value) : null
CpuValue(text) == IF Truthy(Str(text)) THEN NumberOf(text) ELSE Null

\* e.target.value || null
MemValue(text) == IF Truthy(Str(text)) THEN Str(text) ELSE Null

\* DockerTab.js 27-101
DockerTab(server, activeTab, settings) ==
    IF ~Truthy(DockerEnabled(server)) THEN NullElement
    ELSE [el |-> "fragment",
          button |-> IF activeTab = "docker" THEN "settings-tab active" ELSE "settings-tab ",
          form |-> activeTab = "docker",
          cpuLimit |-> CpuLimit(ExtDataOf(settings)),
          memLimit |-> MemLimit(ExtDataOf(settings))]

\* nothing was reported to onSettingsChange
NoReport == [called |-> FALSE, name |-> "", value |-> EmptyObject]

\* no field was edited
NoChange == [field |-> "", key |-> "", text |-> ""]


Init ==
    /\ args \in ArgVectors
    /\ pc = "start"
    /\ container = ""
    /\ docker = ""
    /\ dockerPath = ""
    /\ runErr = "unset"
    /\ fileKind \in FileKinds
    /\ logProc = "none"
    /\ logStatus = 0
    /\ stdout = <<>>
    /\ stderr = <<>>
    /\ exits = <<>>
    /\ logCalls = <<>>
    /\ lookCalls = <<>>
    /\ execCalls = <<>>
    /\ environ \in Environs
    /\ proc = [pid |-> BridgePid, image |-> "bridge", fds |-> InheritedFds]
    /\ history \in Histories
    /\ stdinSent = <<>>
    /\ stdinBuf = <<>>
    /\ containerIn = <<>>
    /\ containerSignals = <<>>
    /\ gui = Unmounted

(* --------------------------------------------------------------- actions *)

\* variant: the usage message is printed on descriptor 1
UsageErrorToStdout ==
    /\ pc = "start"
    /\ NeedsUsage(args)
    /\ stdout' = Append(stdout, [by |-> "bridge", ch |-> "out"])
    /\ exits' = Append(exits, UsageExit)
    /\ pc' = "exited"
    /\ UNCHANGED <<gui, environ, proc, history, stdinSent, stdinBuf, containerIn, containerSignals,
                   args, container, docker, dockerPath, runErr, fileKind, logProc,
                   logStatus, stderr, logCalls, lookCalls, execCalls>>

\* main.go 33-36: too few arguments
UsageError ==
    /\ pc = "start"
    /\ NeedsUsage(args)
    /\ stderr' = Append(stderr, "usage")
    /\ exits' = Append(exits, UsageExit)
    /\ pc' = "exited"
    /\ UNCHANGED <<gui, environ, proc, history, stdinSent, stdinBuf, containerIn, containerSignals,
                   args, container, docker, dockerPath, runErr, fileKind, logProc,
                   logStatus, stdout, logCalls, lookCalls, execCalls>>


\* variant: the runtime is looked up before any log has been replayed
ParseArgsResolveFirst ==
    /\ pc = "start"
    /\ ~NeedsUsage(args)
    /\ container' = ContainerArg(args)
    /\ docker' = DockerArg(args)
    /\ pc' = "resolve"
    /\ UNCHANGED <<gui, environ, proc, history, stdinSent, stdinBuf, containerIn, containerSignals,
                   args, dockerPath, runErr, fileKind, logProc, logStatus,
                   stdout, stderr, exits, logCalls, lookCalls, execCalls>>

\* main.go 38-42: read the arguments
ParseArgs ==
    /\ pc = "start"
    /\ ~NeedsUsage(args)
    /\ container' = ContainerArg(args)
    /\ docker' = DockerArg(args)
    /\ pc' = "logs"
    /\ UNCHANGED <<gui, environ, proc, history, stdinSent, stdinBuf, containerIn, containerSignals,
                   args, dockerPath, runErr, fileKind, logProc, logStatus,
                   stdout, stderr, exits, logCalls, lookCalls, execCalls>>

\* variant: the log command is built without the timestamp flag
LogCommandNoTimestamps ==
    [name |-> docker,
     argv |-> <<"logs", "--tail", initialLogTail, container>>,
     out  |-> "stdout",
     err  |-> "stdout"]

\* variant: the subprocess keeps the bridge's descriptor 2 as its stderr
LogCommandStderr ==
    [name |-> docker,
     argv |-> <<"logs", "--tail", initialLogTail, "--timestamps", container>>,
     out  |-> "stdout",
     err  |-> "stderr"]

\* the command main.go 46-48 builds
LogCommand ==
    [name |-> docker,
     argv |-> <<"logs", "--tail", initialLogTail, "--timestamps", container>>,
     out  |-> "stdout",
     err  |-> "stdout"]

\* main.go 46-49: logs.Run() cannot start the subprocess; the error is dropped
LogsStartFail ==
    /\ pc = "logs"
    /\ logCalls' = Append(logCalls, LogCommand)
    /\ runErr' = "start_error"
    /\ pc' = "resolve"
    /\ UNCHANGED <<gui, environ, proc, history, stdinSent, stdinBuf, containerIn, containerSignals,
                   args, container, docker, dockerPath, fileKind, logProc,
                   logStatus, stdout, stderr, exits, lookCalls, execCalls>>

\* main.go 46-49: logs.Run() starts the subprocess and blocks
LogsStart ==
    /\ pc = "logs"
    /\ CanExec(FileKindOf(docker))
    /\ logCalls' = Append(logCalls, LogCommand)
    /\ logProc' = "running"
    /\ pc' = "wait"
    /\ UNCHANGED <<gui, environ, proc, history, stdinSent, stdinBuf, containerIn, containerSignals,
                   args, container, docker, dockerPath, runErr, fileKind,
                   logStatus, stdout, stderr, exits, lookCalls, execCalls>>

\* the log subprocess writes: a run of n log lines on its stdout or stderr,
\* or a message of its own (n = 0) on its stderr.  Each goes to the file the
\* command was given for that stream (main.go 47-48).
LogWrite ==
    /\ logProc = "running"
    /\ LogLines < MaxLogLines
    /\ \E ch \in {"out", "err"}, n \in ChunkSizes \cup {0} :
          /\ n = 0 => ch = "err"
          /\ n <= Allowance(logCalls[1].argv) - LogLinesEmitted
          /\ LET target == IF ch = "out" THEN logCalls[1].out ELSE logCalls[1].err
                 entry  == [by |-> "log", ch |-> ch, n |-> n,
                            ts |-> n > 0 /\ HasTimestamps(logCalls[1].argv)]
             IN  IF target = "stdout"
                   THEN stdout' = Append(stdout, entry) /\ UNCHANGED stderr
                   ELSE stderr' = Append(stderr, "log") /\ UNCHANGED stdout
    /\ UNCHANGED <<gui, environ, proc, history, stdinSent, stdinBuf, containerIn, containerSignals,
                   args, pc, container, docker, dockerPath, runErr, fileKind,
                   logProc, logStatus, exits, logCalls, lookCalls, execCalls>>

\* the log subprocess exits, with status zero or not
LogExit ==
    /\ logProc = "running"
    /\ logProc' = "exited"
    /\ \E s \in {0, 1} : logStatus' = s
    /\ UNCHANGED <<gui, environ, proc, history, stdinSent, stdinBuf, containerIn, containerSignals,
                   args, pc, container, docker, dockerPath, runErr, fileKind,
                   stdout, stderr, exits, logCalls, lookCalls, execCalls>>

\* variant: logs.Start() in place of logs.Run(): no wait for the subprocess
LogsNoWait ==
    /\ pc = "wait"
    /\ runErr' = "nil"
    /\ pc' = "resolve"
    /\ UNCHANGED <<gui, environ, proc, history, stdinSent, stdinBuf, containerIn, containerSignals,
                   args, container, docker, dockerPath, fileKind, logProc,
                   logStatus, stdout, stderr, exits, logCalls, lookCalls, execCalls>>

\* variant: a non-zero exit of the log subprocess ends the bridge
LogsWaitFatal ==
    /\ pc = "wait"
    /\ logProc = "exited"
    /\ runErr' = IF logStatus = 0 THEN "nil" ELSE "exit_error"
    /\ IF logStatus = 0
         THEN pc' = "resolve" /\ UNCHANGED <<stderr, exits>>
         ELSE /\ pc' = "exited"
              /\ stderr' = Append(stderr, "logsfailed")
              /\ exits' = Append(exits, UsageExit)
    /\ UNCHANGED <<gui, environ, proc, history, stdinSent, stdinBuf, containerIn, containerSignals,
                   args, container, docker, dockerPath, fileKind, logProc,
                   logStatus, stdout, logCalls, lookCalls, execCalls>>

\* variant: the bridge closes its stdout once the replay is over
LogsWaitClosesStdout ==
    /\ pc = "wait"
    /\ logProc = "exited"
    /\ runErr' = IF logStatus = 0 THEN "nil" ELSE "exit_error"
    /\ proc' = [proc EXCEPT !.fds[2] = "closed"]
    /\ pc' = "resolve"
    /\ UNCHANGED <<gui, environ, history, stdinSent, stdinBuf, containerIn, containerSignals,
                   args, container, docker, dockerPath, fileKind, logProc,
                   logStatus, stdout, stderr, exits, logCalls, lookCalls, execCalls>>

\* variant: the bridge waits until a log command has succeeded
LogsWaitSuccessOnly ==
    /\ pc = "wait"
    /\ logProc = "exited"
    /\ logStatus = 0
    /\ runErr' = "nil"
    /\ pc' = "resolve"
    /\ UNCHANGED <<gui, environ, proc, history, stdinSent, stdinBuf, containerIn, containerSignals,
                   args, container, docker, dockerPath, fileKind, logProc,
                   logStatus, stdout, stderr, exits, logCalls, lookCalls, execCalls>>

\* main.go 49: logs.Run() returns once the subprocess has exited; the
\* returned error is assigned to _
LogsWait ==
    /\ pc = "wait"
    /\ logProc = "exited"
    /\ runErr' = IF logStatus = 0 THEN "nil" ELSE "exit_error"
    /\ pc' = "resolve"
    /\ UNCHANGED <<gui, environ, proc, history, stdinSent, stdinBuf, containerIn, containerSignals,
                   args, container, docker, dockerPath, fileKind, logProc,
                   logStatus, stdout, stderr, exits, logCalls, lookCalls, execCalls>>

\* what exec.LookPath(docker) is asked and what it sees
LookCall(ok) ==
    [file |-> docker, kind |-> FileKindOf(docker), ok |-> ok]

\* main.go 54: exec.LookPath finds the executable
LookPathOk ==
    /\ pc = "resolve"
    /\ FindExecutable(FileKindOf(docker))
    /\ lookCalls' = Append(lookCalls, LookCall(TRUE))
    /\ dockerPath' = ResolvedPath(docker)
    /\ pc' = "exec"
    /\ UNCHANGED <<gui, environ, proc, history, stdinSent, stdinBuf, containerIn, containerSignals,
                   args, container, docker, runErr, fileKind, logProc, logStatus,
                   stdout, stderr, exits, logCalls, execCalls>>

\* variant: the diagnostic is printed and main goes on to the transfer
LookPathFailNoExit ==
    /\ pc = "resolve"
    /\ ~FindExecutable(FileKindOf(docker))
    /\ lookCalls' = Append(lookCalls, LookCall(FALSE))
    /\ stderr' = Append(stderr, "notfound")
    /\ dockerPath' = ""
    /\ pc' = "exec"
    /\ UNCHANGED <<gui, environ, proc, history, stdinSent, stdinBuf, containerIn, containerSignals,
                   args, container, docker, runErr, fileKind, logProc, logStatus,
                   stdout, exits, logCalls, execCalls>>


\* variant: the runtime-not-found message is printed on descriptor 1
LookPathFailToStdout ==
    /\ pc = "resolve"
    /\ ~FindExecutable(FileKindOf(docker))
    /\ lookCalls' = Append(lookCalls, LookCall(FALSE))
    /\ stdout' = Append(stdout, [by |-> "bridge", ch |-> "out"])
    /\ exits' = Append(exits, RuntimeNotFoundExit)
    /\ pc' = "exited"
    /\ UNCHANGED <<gui, environ, proc, history, stdinSent, stdinBuf, containerIn, containerSignals,
                   args, container, docker, dockerPath, runErr, fileKind, logProc,
                   logStatus, stderr, logCalls, execCalls>>

\* main.go 54-58: exec.LookPath fails
LookPathFail ==
    /\ pc = "resolve"
    /\ ~FindExecutable(FileKindOf(docker))
    /\ lookCalls' = Append(lookCalls, LookCall(FALSE))
    /\ stderr' = Append(stderr, "notfound")
    /\ exits' = Append(exits, RuntimeNotFoundExit)
    /\ pc' = "exited"
    /\ UNCHANGED <<gui, environ, proc, history, stdinSent, stdinBuf, containerIn, containerSignals,
                   args, container, docker, dockerPath, runErr, fileKind, logProc,
                   logStatus, stdout, logCalls, execCalls>>

\* variant: the transfer is made with an empty environment
ExecCallNoEnv ==
    [path |-> dockerPath,
     argv |-> <<docker, "attach", "--sig-proxy=false", container>>,
     env  |-> <<>>]

\* variant: the attach command is built without the signal-proxy flag
ExecCallSigProxy ==
    [path |-> dockerPath,
     argv |-> <<docker, "attach", container>>,
     env  |-> environ]

\* the call main.go 60-61 makes
ExecCall ==
    [path |-> dockerPath,
     argv |-> <<docker, "attach", "--sig-proxy=false", container>>,
     env  |-> environ]

\* variant: the attach program runs as a child and main returns after it
ExecOkReturns ==
    /\ pc = "exec"
    /\ CanExec(FileKindOf(docker))
    /\ execCalls' = Append(execCalls, ExecCall)
    /\ exits' = Append(exits, 0)
    /\ pc' = "exited"
    /\ UNCHANGED <<gui, environ, proc, history, stdinSent, stdinBuf, containerIn, containerSignals,
                   args, container, docker, dockerPath, runErr, fileKind, logProc,
                   logStatus, stdout, stderr, logCalls, lookCalls>>

\* variant: the bridge read ahead on its stdin; what it buffered is gone
\* with the old image
ExecOkDrainsStdin ==
    /\ pc = "exec"
    /\ CanExec(FileKindOf(docker))
    /\ execCalls' = Append(execCalls, ExecCall)
    /\ proc' = ExecImage(proc)
    /\ stdinBuf' = <<>>
    /\ pc' = "replaced"
    /\ UNCHANGED <<gui, environ, history, stdinSent, containerIn, containerSignals,
                   args, container, docker, dockerPath, runErr, fileKind, logProc,
                   logStatus, stdout, stderr, exits, logCalls, lookCalls>>

\* main.go 61: syscall.Exec replaces the process image and never returns
ExecOk ==
    /\ pc = "exec"
    /\ CanExec(FileKindOf(docker))
    /\ execCalls' = Append(execCalls, ExecCall)
    /\ proc' = ExecImage(proc)
    /\ pc' = "replaced"
    /\ UNCHANGED <<gui, environ, history, stdinSent, stdinBuf, containerIn, containerSignals,
                   args, container, docker, dockerPath, runErr, fileKind, logProc,
                   logStatus, stdout, stderr, exits, logCalls, lookCalls>>

\* variant: a failed transfer is tried again
ExecFailRetry ==
    /\ pc = "exec"
    /\ execCalls' = Append(execCalls, ExecCall)
    /\ stderr' = Append(stderr, "execfailed")
    /\ pc' = "exec"
    /\ UNCHANGED <<gui, environ, proc, history, stdinSent, stdinBuf, containerIn, containerSignals,
                   args, container, docker, dockerPath, runErr, fileKind, logProc,
                   logStatus, stdout, exits, logCalls, lookCalls>>

\* variant: a failed transfer starts over from the replay
ExecFailRestart ==
    /\ pc = "exec"
    /\ execCalls' = Append(execCalls, ExecCall)
    /\ stderr' = Append(stderr, "execfailed")
    /\ pc' = "logs"
    /\ UNCHANGED <<gui, environ, proc, history, stdinSent, stdinBuf, containerIn, containerSignals,
                   args, container, docker, dockerPath, runErr, fileKind, logProc,
                   logStatus, stdout, exits, logCalls, lookCalls>>

\* main.go 61-64: syscall.Exec returns an error
ExecFail ==
    /\ pc = "exec"
    /\ execCalls' = Append(execCalls, ExecCall)
    /\ stderr' = Append(stderr, "execfailed")
    /\ exits' = Append(exits, ExecFailedExit)
    /\ pc' = "exited"
    /\ UNCHANGED <<gui, environ, proc, history, stdinSent, stdinBuf, containerIn, containerSignals,
                   args, container, docker, dockerPath, runErr, fileKind, logProc,
                   logStatus, stdout, logCalls, lookCalls>>

\* the attach program, now running as the process, relays a byte of the
\* container's output to descriptor 1
AttachRelay ==
    /\ pc = "replaced"
    /\ LiveBytes < MaxLiveBytes
    /\ stdout' = Append(stdout, [by |-> "attach", ch |-> "out"])
    /\ UNCHANGED <<gui, environ, proc, history, stdinSent, stdinBuf, containerIn, containerSignals,
                   args, pc, container, docker, dockerPath, runErr, fileKind,
                   logProc, logStatus, stderr, exits, logCalls, lookCalls, execCalls>>

\* the supervisor writes a byte on the pipe that is the bridge's stdin
SupervisorSend ==
    /\ pc \notin {"exited", "killed"}
    /\ Len(stdinSent) < MaxInputBytes
    /\ stdinSent' = Append(stdinSent, InputByte(Len(stdinSent) + 1))
    /\ stdinBuf' = Append(stdinBuf, InputByte(Len(stdinSent) + 1))
    /\ UNCHANGED <<gui, environ, proc, history, containerIn, containerSignals,
                   args, pc, container, docker, dockerPath, runErr, fileKind,
                   logProc, logStatus, stdout, stderr, exits, logCalls, lookCalls, execCalls>>

\* the attach program reads a byte from descriptor 0 and hands it to the
\* container
AttachForward ==
    /\ pc = "replaced"
    /\ proc.image = "attach"
    /\ proc.fds[1] = "stdin"
    /\ stdinBuf # <<>>
    /\ containerIn' = Append(containerIn, Head(stdinBuf))
    /\ stdinBuf' = Tail(stdinBuf)
    /\ UNCHANGED <<gui, environ, proc, history, stdinSent, containerSignals,
                   args, pc, container, docker, dockerPath, runErr, fileKind,
                   logProc, logStatus, stdout, stderr, exits, logCalls, lookCalls, execCalls>>

\* the file system changes under the running bridge
EnvChange ==
    /\ pc \notin Terminal
    /\ \E k \in FileKinds \ {fileKind} : fileKind' = k
    /\ UNCHANGED <<gui, environ, proc, history, stdinSent, stdinBuf, containerIn, containerSignals,
                   args, pc, container, docker, dockerPath, runErr, logProc,
                   logStatus, stdout, stderr, exits, logCalls, lookCalls, execCalls>>

Next ==
    \/ UsageError
    \/ ParseArgs
    \/ LogsStartFail
    \/ LogsStart
    \/ LogWrite
    \/ LogExit
    \/ LogsWait
    \/ LookPathOk
    \/ LookPathFail
    \/ ExecOk
    \/ ExecFail
    \/ AttachRelay
    \/ SupervisorSend
    \/ AttachForward
    \/ EnvChange

Spec == Init /\ [][Next]_vars

\* the steps main() itself takes
BridgeStep ==
    \/ UsageError
    \/ ParseArgs
    \/ LogsStartFail
    \/ LogsStart
    \/ LogsWait
    \/ LookPathOk
    \/ LookPathFail
    \/ ExecOk
    \/ ExecFail

\* the bridge is a running process: a step it can take, it takes
FairSpec == Spec /\ WF_vars(BridgeStep)

\* the signals a supervisor sends to end a child
Signals == {"SIGINT", "SIGTERM"}

\* docker attach --sig-proxy=false: signals are not passed on to the container
SigProxyDisabled(argv) == \E i \in 1..Len(argv) : argv[i] = "--sig-proxy=false"

\* a signal is delivered to the process.  main() installs no handler, so
\* before the transfer the process dies of it; after the transfer the attach
\* program passes it on to the container unless told not to, and dies of it
\* otherwise
Signal ==
    /\ pc \notin {"exited", "killed"}
    /\ \E sig \in Signals :
          IF pc = "replaced" /\ ~SigProxyDisabled(execCalls[1].argv)
            THEN containerSignals' = Append(containerSignals, sig) /\ pc' = pc
            ELSE containerSignals' = containerSignals /\ pc' = "killed"
    /\ UNCHANGED <<gui, environ, proc, history, stdinSent, stdinBuf, containerIn,
                   args, container, docker, dockerPath, runErr, fileKind, logProc,
                   logStatus, stdout, stderr, exits, logCalls, lookCalls, execCalls>>

NextSignal ==
    \/ Next
    \/ Signal

SignalSpec == Init /\ [][NextSignal]_vars


(* ------------------------------------------------------- the GUI's steps *)

\* the state of the bridge, which the GUI code does not touch
bridgeVars ==
    <<args, pc, container, docker, dockerPath, runErr, fileKind, logProc,
      logStatus, stdout, stderr, exits, logCalls, lookCalls, execCalls,
      environ, proc, history, stdinSent, stdinBuf, containerIn,
      containerSignals>>

\* a server card the host is about to render
CardProps ==
    {[op |-> "ServerCard", rendered |-> FALSE,
      server |-> server, provisionProgress |-> provisionProgress,
      headerGauge |-> NullElement, expandedStats |-> NullElement,
      provision |-> NullElement] :
        server \in Servers, provisionProgress \in Progresses}

\* a settings dialog the host is about to render
SettingsProps ==
    {[op |-> "ServerSettings", rendered |-> FALSE,
      server |-> server, activeTab |-> activeTab, settings |-> settings,
      tab |-> NullElement, change |-> NoChange, report |-> NoReport] :
        server \in Servers, activeTab \in Tabs, settings \in Settings}

\* a gauge about to be rendered
GaugeProps ==
    {[op |-> "MemoryGauge", rendered |-> FALSE,
      percent |-> percent, out |-> NullElement] : percent \in Percents}

\* the host renders a server card: the components registered for the
\* header gauge, the expanded statistics and the provision slot, each with
\* the card's server
RenderServerCard ==
    /\ gui.op = "ServerCard"
    /\ ~gui.rendered
    /\ gui' = [gui EXCEPT
                 !.rendered = TRUE,
                 !.headerGauge = DockerMiniGauge(gui.server),
                 !.expandedStats = DockerStatsRow(gui.server),
                 !.provision = DockerProvision(gui.server, gui.provisionProgress)]
    /\ UNCHANGED bridgeVars

\* the host renders the settings dialog of a server with the DockerTab slot
RenderServerSettings ==
    /\ gui.op = "ServerSettings"
    /\ ~gui.rendered
    /\ gui' = [gui EXCEPT
                 !.rendered = TRUE,
                 !.tab = DockerTab(gui.server, gui.activeTab, gui.settings)]
    /\ UNCHANGED bridgeVars

\* DockerTab.js 71: the user changes the CPU field
ChangeCpuLimit ==
    /\ gui.op = "ServerSettings"
    /\ gui.rendered
    /\ ~gui.report.called
    /\ gui.tab.el # "null"
    /\ gui.tab.form
    /\ \E text \in CpuTexts \ {gui.tab.cpuLimit.s} :
          gui' = [gui EXCEPT
                    !.change = [field |-> "cpu", key |-> "docker_cpu_limit", text |-> text],
                    !.report = [called |-> TRUE,
                                name |-> "_extension_data",
                                value |-> UpdateExtData(ExtDataOf(gui.settings),
                                                        "docker_cpu_limit", CpuValue(text))]]
    /\ UNCHANGED bridgeVars

\* DockerTab.js 85: the user changes the memory field
ChangeMemoryLimit ==
    /\ gui.op = "ServerSettings"
    /\ gui.rendered
    /\ ~gui.report.called
    /\ gui.tab.el # "null"
    /\ gui.tab.form
    /\ \E text \in MemTexts \ {gui.tab.memLimit.s} :
          gui' = [gui EXCEPT
                    !.change = [field |-> "memory", key |-> "docker_memory_limit", text |-> text],
                    !.report = [called |-> TRUE,
                                name |-> "_extension_data",
                                value |-> UpdateExtData(ExtDataOf(gui.settings),
                                                        "docker_memory_limit", MemValue(text))]]
    /\ UNCHANGED bridgeVars

\* a MemoryGauge is rendered with a percent
RenderMemoryGauge ==
    /\ gui.op = "MemoryGauge"
    /\ ~gui.rendered
    /\ gui' = [gui EXCEPT !.rendered = TRUE, !.out = MemoryGauge(gui.percent)]
    /\ UNCHANGED bridgeVars

\* the GUI code runs in the host application, apart from any bridge: the
\* bridge's state stays as it is before a bridge starts
GuiInit ==
    /\ args = <<>>
    /\ pc = "start"
    /\ container = ""
    /\ docker = ""
    /\ dockerPath = ""
    /\ runErr = "unset"
    /\ fileKind = "missing"
    /\ logProc = "none"
    /\ logStatus = 0
    /\ stdout = <<>>
    /\ stderr = <<>>
    /\ exits = <<>>
    /\ logCalls = <<>>
    /\ lookCalls = <<>>
    /\ execCalls = <<>>
    /\ environ = <<"PATH=/usr/bin">>
    /\ proc = [pid |-> BridgePid, image |-> "bridge", fds |-> InheritedFds]
    /\ history = 0
    /\ stdinSent = <<>>
    /\ stdinBuf = <<>>
    /\ containerIn = <<>>
    /\ containerSignals = <<>>
    /\ gui \in CardProps \cup SettingsProps \cup GaugeProps

GuiNext ==
    \/ RenderServerCard
    \/ RenderServerSettings
    \/ ChangeCpuLimit
    \/ ChangeMemoryLimit
    \/ RenderMemoryGauge

GuiSpec == GuiInit /\ [][GuiNext]_vars

(* ---------------------------------------------------------------- claims *)

\* the processes that may write to descriptor 1 right now
Writers ==
    {w \in {"log", "attach"} :
        \/ w = "log" /\ logProc = "running"
        \/ w = "attach" /\ pc = "replaced"}

\* C1: with a container argument, whatever logs.Run() returned, the bridge
\* goes on to runtime resolution and from there to the attach transfer: no
\* exit comes out of the replay stage, and the relay steps taken depend on
\* the resolution alone.
ReplayNeverDecidesRelay ==
    Len(args) >= 2 =>
        /\ pc \in ReplayStage \cup {"start"} => exits = <<>> /\ runErr = "unset"
        /\ runErr # "unset" => Len(logCalls) = 1 /\ pc \in RelayStage \cup Terminal
        /\ exits # <<>> => Len(lookCalls) = 1
        /\ pc = "exec" => Len(lookCalls) = 1 /\ lookCalls[1].ok
        /\ pc \in Terminal =>
              /\ Len(lookCalls) = 1
              /\ Len(execCalls) = (IF lookCalls[1].ok THEN 1 ELSE 0)

\* C1 witness: the log subprocess could not be started and the bridge still
\* reached the attach transfer
ReplayFailedRelayReached ==
    /\ runErr = "start_error"
    /\ pc = "replaced"

\* C2: the relay stage never runs while the log subprocess does, at most one
\* process writes descriptor 1 at any moment, and every replayed line comes
\* before every relayed byte.
ReplayCompletesBeforeRelay ==
    /\ (pc \in RelayStage \cup {"replaced"} \/ lookCalls # <<>> \/ execCalls # <<>>)
          => logProc # "running"
    /\ Cardinality(Writers) <= 1
    /\ \A i, j \in 1..Len(stdout) :
          (i < j /\ stdout[i].by = "attach") => stdout[j].by # "log"

\* C2 witness: replayed lines followed by relayed bytes
ReplayThenLive ==
    /\ pc = "replaced"
    /\ LogLines >= 1
    /\ LiveBytes >= 1

\* C3: a failed resolution writes the diagnostic to descriptor 2, exits with
\* status 2 and makes no transfer call.
RuntimeNotFoundExits ==
    (lookCalls # <<>> /\ ~lookCalls[1].ok) =>
        /\ pc = "exited"
        /\ exits = <<2>>
        /\ stderr = <<"notfound">>
        /\ execCalls = <<>>

\* C3 witness: the runtime file is missing when it is looked up
RuntimeMissingAtLookup ==
    /\ lookCalls # <<>>
    /\ lookCalls[1].kind = "missing"
    /\ pc = "exited"

\* C4: a failed transfer after a successful resolution writes the failure to
\* descriptor 2 and exits with status 3; the transfer and the replay each
\* ran once.
ExecFailedExits ==
    (execCalls # <<>> /\ pc # "replaced") =>
        /\ pc = "exited"
        /\ exits = <<3>>
        /\ stderr = <<"execfailed">>
        /\ Len(execCalls) = 1
        /\ Len(lookCalls) = 1 /\ lookCalls[1].ok
        /\ Len(logCalls) = 1

\* C4 witness: the resolved file has execute permission and is no program
ExecRejectedAfterLookup ==
    /\ execCalls # <<>>
    /\ pc = "exited"
    /\ lookCalls[1].kind = "badformat"

\* C5 as stated: a runtime file without execute permission counts as found
\* and the bridge exits with ExecFailed.
NonExecutableFileExecFailed ==
    (lookCalls # <<>> /\ lookCalls[1].kind = "nonexec") =>
        /\ lookCalls[1].ok
        /\ pc = "exited" => exits = <<3>>

\* C5 amended: a runtime file without execute permission fails the
\* resolution, so the bridge exits with RuntimeNotFound and makes no transfer
\* call; ExecFailed is reached only after a resolution that found a file with
\* execute permission.
NonExecutableFileNotFound ==
    /\ (lookCalls # <<>> /\ lookCalls[1].kind = "nonexec") =>
          /\ ~lookCalls[1].ok
          /\ pc = "exited"
          /\ exits = <<2>>
          /\ execCalls = <<>>
    /\ exits = <<3>> =>
          /\ Len(lookCalls) = 1
          /\ lookCalls[1].kind \in {"badformat", "exec_ok"}
          /\ Len(execCalls) = 1

\* C5 witness: the runtime file has no execute permission when looked up
NonExecutableAtLookup ==
    /\ lookCalls # <<>>
    /\ lookCalls[1].kind = "nonexec"
    /\ pc = "exited"

\* C6: the three statuses differ pairwise, and an exited bridge passed
\* exactly one status to os.Exit: 1 for too few arguments, 2 for a failed
\* resolution, 3 for a failed transfer.
ExitStatusesDistinct ==
    /\ UsageExit # RuntimeNotFoundExit
    /\ UsageExit # ExecFailedExit
    /\ RuntimeNotFoundExit # ExecFailedExit
    /\ pc # "exited" => exits = <<>>
    /\ pc = "exited" =>
          /\ Len(exits) = 1
          /\ exits[1] = (IF Len(args) < 2 THEN 1
                         ELSE IF execCalls = <<>> THEN 2
                         ELSE 3)

\* C6 witness: an exit after a failed transfer
ExitedAfterTransfer ==
    /\ pc = "exited"
    /\ execCalls # <<>>
    /\ Len(exits) = 1

\* C7: with fewer than two arguments the bridge writes the usage message to
\* descriptor 2 and exits with the usage status, and runs no log command, no
\* resolution and no transfer.
UsageErrorOnly ==
    (Len(args) < 2 /\ pc # "start") =>
        /\ pc = "exited"
        /\ stderr = <<"usage">>
        /\ stdout = <<>>
        /\ exits = <<1>>
        /\ logCalls = <<>>
        /\ lookCalls = <<>>
        /\ execCalls = <<>>

\* C7 witness: an invocation with the program name alone has exited
UsageExited ==
    /\ Len(args) = 1
    /\ pc = "exited"

\* C8: no status passed to os.Exit is 0; the bridge ends with status 1, 2 or
\* 3 and its diagnostic, or by the attach program replacing it.
NeverExitsZero ==
    /\ \A i \in 1..Len(exits) : exits[i] # 0
    /\ pc \in Terminal =>
          \/ pc = "replaced" /\ exits = <<>> /\ Len(execCalls) = 1
          \/ pc = "exited" /\ exits = <<1>> /\ stderr = <<"usage">>
          \/ pc = "exited" /\ exits = <<2>> /\ stderr = <<"notfound">>
          \/ pc = "exited" /\ exits = <<3>> /\ stderr = <<"execfailed">>

\* C8 witness: the attach program has replaced the bridge and relays
ReplacedAndRelaying ==
    /\ pc = "replaced"
    /\ exits = <<>>
    /\ LiveBytes = MaxLiveBytes

\* C9: every step leaves at most one log command, one resolution and one
\* transfer call made, and no step from past the replay stage leads back
\* into it.
NoRetryNoReturn ==
    [][/\ Len(logCalls') <= 1
       /\ Len(lookCalls') <= 1
       /\ Len(execCalls') <= 1
       /\ pc \notin ReplayStage \cup {"start"} => pc' \notin ReplayStage \cup {"start"}]_vars

\* C9 witness: all three steps were taken once and the transfer failed
AllStepsTakenOnce ==
    /\ pc = "exited"
    /\ Len(logCalls) = 1
    /\ Len(lookCalls) = 1
    /\ Len(execCalls) = 1
    /\ LogLines = MaxLogLines

\* C10: the runtime name is the third element of os.Args when there is one
\* and the default path otherwise, and the log command, the resolution and
\* the transfer all use that name.
RuntimePathUsed ==
    LET rt == IF Len(args) >= 3 THEN args[3] ELSE "/opt/saba-chan/docker/docker"
    IN  /\ pc \notin {"start", "exited"} \/ logCalls # <<>> => docker = rt
        /\ \A i \in 1..Len(logCalls) : logCalls[i].name = rt
        /\ \A i \in 1..Len(lookCalls) : lookCalls[i].file = rt
        /\ \A i \in 1..Len(execCalls) :
              /\ execCalls[i].argv[1] = rt
              /\ execCalls[i].path = ResolvedPath(rt)

\* C10 witness: the runtime argument was omitted and the transfer was made
DefaultRuntimeTransferred ==
    /\ Len(args) = 2
    /\ pc = "replaced"
    /\ execCalls[1].argv[1] = defaultDocker

\* C11: the second element of os.Args, whatever it is, is the last operand of
\* the log command and of the attach command, and no invocation that has
\* it ends in the usage error.
ContainerVerbatim ==
    Len(args) >= 2 =>
        /\ \A i \in 1..Len(logCalls) :
              logCalls[i].argv[Len(logCalls[i].argv)] = args[2]
        /\ \A i \in 1..Len(execCalls) :
              execCalls[i].argv[Len(execCalls[i].argv)] = args[2]
        /\ pc # "start" => container = args[2]
        /\ "usage" \notin {stderr[i] : i \in 1..Len(stderr)}
        /\ pc \in Terminal => Len(logCalls) = 1 /\ Len(lookCalls) = 1

\* C11 witness: a container name that starts with a dash reached the attach
\* command
DashContainerAttached ==
    /\ Len(args) >= 2
    /\ args[2] = "-x"
    /\ pc = "replaced"

\* C12: every log command has the argument list logs --tail 200
\* --timestamps <container>.
LogArgvExact ==
    \A i \in 1..Len(logCalls) :
        logCalls[i].argv = <<"logs", "--tail", "200", "--timestamps", args[2]>>

\* C12 witness: a log command was run for the empty container name
LogCommandRun ==
    /\ Len(logCalls) = 1
    /\ Len(args) >= 2
    /\ args[2] = ""

\* C13: every transfer call has the argument list <runtime> attach
\* --sig-proxy=false <container> and the environment of the process, which
\* is still the one the bridge was started with.
AttachArgvAndEnvExact ==
    /\ environ \in Environs
    /\ \A i \in 1..Len(execCalls) :
          /\ execCalls[i].argv =
                <<IF Len(args) >= 3 THEN args[3] ELSE "/opt/saba-chan/docker/docker",
                  "attach", "--sig-proxy=false", args[2]>>
          /\ execCalls[i].env = environ

\* C13 witness: the transfer was made with an environment of two variables
AttachWithTwoVariables ==
    /\ pc = "replaced"
    /\ Len(execCalls) = 1
    /\ Len(environ) = 2

\* C14: the log command is given descriptor 1 for both its streams, its
\* output on either stream lands on descriptor 1, and up to the resolution
\* nothing was written to descriptor 2 and no status was passed to os.Exit.
ReplaySilentOnStderr ==
    Len(args) >= 2 =>
        /\ \A i \in 1..Len(logCalls) :
              logCalls[i].out = "stdout" /\ logCalls[i].err = "stdout"
        /\ \A i \in 1..Len(stderr) : stderr[i] # "log"
        /\ lookCalls = <<>> => stderr = <<>> /\ exits = <<>>
        /\ \A i \in 1..Len(stderr) : stderr[i] \in {"notfound", "execfailed"}

\* C14 witness: the log subprocess wrote on its stderr and exited non-zero,
\* and logs.Run() has returned
ReplayFailedWithStderrOutput ==
    /\ runErr = "exit_error"
    /\ \E i \in 1..Len(stdout) : stdout[i].by = "log" /\ stdout[i].ch = "err"
    /\ pc = "resolve"

\* C16: the log lines on descriptor 1 number at most 200 and at most what
\* the container has logged, each carries its timestamp, and all of them
\* come before the first relayed byte.
ReplayBounded ==
    /\ LogLinesEmitted <= 200
    /\ LogLinesEmitted <= history
    /\ \A i \in 1..Len(stdout) :
          (stdout[i].by = "log" /\ stdout[i].n > 0) => stdout[i].ts
    /\ \A i, j \in 1..Len(stdout) :
          (stdout[i].by = "log" /\ stdout[j].by = "attach") => i < j

\* C16 witness: a container with 201 logged lines, 200 replayed, then a
\* relayed byte
TailReplayedThenLive ==
    /\ history = 201
    /\ LogLinesEmitted = 200
    /\ LiveBytes >= 1

\* C15: after a successful transfer the process runs the attach program
\* under the bridge's identifier with the inherited descriptors, and the
\* bridge has written no diagnostic and passed no status to os.Exit, then
\* or later; after a failed transfer the process still runs the bridge,
\* which writes the diagnostic and exits.
TransferAllOrNothing ==
    /\ pc = "replaced" =>
          /\ proc = [pid |-> "bridge_pid", image |-> "attach",
                     fds |-> <<"stdin", "stdout", "stderr">>]
          /\ exits = <<>>
          /\ stderr = <<>>
          /\ Len(execCalls) = 1
    /\ proc.image = "attach" => pc = "replaced"
    /\ (execCalls # <<>> /\ pc # "replaced") =>
          /\ proc.image = "bridge"
          /\ pc = "exited"
          /\ stderr = <<"execfailed">>
          /\ exits = <<3>>

\* C15 witness: the attach program runs in the process and has relayed in
\* both directions
AttachRunsInProcess ==
    /\ proc.image = "attach"
    /\ LiveBytes >= 1
    /\ containerIn # <<>>

\* C17: no signal delivered to the process, before or after the transfer,
\* reaches the container's process, and every attach command carries
\* --sig-proxy=false.
SignalsNeverForwarded ==
    /\ containerSignals = <<>>
    /\ \A i \in 1..Len(execCalls) : execCalls[i].argv[3] = "--sig-proxy=false"

\* C17 witness: a signal ended the attach program after the transfer
SignalAfterTransfer ==
    /\ pc = "killed"
    /\ proc.image = "attach"

\* C18: the bridge never reads its stdin: what the supervisor sent is what
\* reached the container followed by what is still unread, in the same order
\* and unchanged; the container gets bytes only from the attach program,
\* which holds the inherited descriptors, and once it writes descriptor 1
\* nothing else does.
RelayFidelity ==
    /\ stdinSent = containerIn \o stdinBuf
    /\ pc # "replaced" => containerIn = <<>>
    /\ pc = "replaced" =>
          /\ proc.image = "attach"
          /\ proc.fds = <<"stdin", "stdout", "stderr">>
    /\ \A i, j \in 1..Len(stdout) :
          (i < j /\ stdout[i].by = "attach") => stdout[j].by = "attach"
    /\ \A i \in 1..Len(stdinSent) : stdinSent[i] = InputByte(i)

\* C18 witness: bytes sent before and after the transfer reached the
\* container in order, and container output reached descriptor 1
BothDirectionsRelayed ==
    /\ pc = "replaced"
    /\ containerIn = <<"a", "b">>
    /\ LiveBytes = MaxLiveBytes

\* C19: descriptors 0, 1 and 2 of the process are the inherited ones in
\* every state; the log command is lent descriptor 1 and the attach program
\* gets all three as they are.
DescriptorsUntouched ==
    /\ proc.fds = <<"stdin", "stdout", "stderr">>
    /\ \A i \in 1..Len(logCalls) :
          logCalls[i].out \in {"stdout", "stderr"} /\ logCalls[i].err \in {"stdout", "stderr"}

\* C19 witness: the descriptors were lent to a log subprocess that wrote and
\* exited, then handed to the attach program
DescriptorsLentThenHanded ==
    /\ logProc = "exited"
    /\ LogLines >= 1
    /\ proc.image = "attach"
    /\ proc.fds = InheritedFds

\* C20: if the log subprocess does not run forever the bridge reaches a
\* terminal state, and stays in it; while the log subprocess runs the
\* bridge waits for it, and that wait is the only state short of a terminal
\* one where the bridge has no step to take.
TerminatesUnlessLogHangs ==
    /\ (<>[](logProc # "running")) => <>(pc \in Terminal)
    /\ [][(pc \in Terminal) => (pc' = pc)]_vars
    /\ [](logProc = "running" => pc = "wait" /\ lookCalls = <<>>)
    /\ []((pc \notin Terminal /\ ~(pc = "wait" /\ logProc = "running")) => ENABLED BridgeStep)

\* C20 witness: the log subprocess failed and exited, and the bridge went on
\* to be replaced
ReplacedAfterFailedLog ==
    /\ pc = "replaced"
    /\ logProc = "exited"
    /\ logStatus = 1

\* C21: the runtime is looked up only once the replay invocation has ended.
\* Whenever exec.LookPath has been called, or the runtime-not-found message
\* or status is out, exactly one log command has been run, its Run() has
\* returned and no log subprocess is still running; while main() is before
\* or inside the replay there is no lookup and no such report.  With a
\* runtime name that designates nothing the one log command failed to start,
\* its error went nowhere, and the bridge ended with the runtime-not-found
\* status.
ResolutionAfterReplay ==
    LET replayOver == /\ Len(logCalls) = 1
                      /\ runErr # "unset"
                      /\ logProc # "running"
        reported   == \/ \E i \in 1..Len(stderr) : stderr[i] = "notfound"
                      \/ \E i \in 1..Len(exits) : exits[i] = RuntimeNotFoundExit
    IN  /\ lookCalls # <<>> => replayOver
        /\ reported => replayOver /\ Len(lookCalls) = 1
        /\ pc \in {"start"} \cup ReplayStage => lookCalls = <<>> /\ ~reported
        /\ (Len(args) >= 3 /\ args[3] = "" /\ pc \in Terminal) =>
              /\ Len(logCalls) = 1
              /\ runErr = "start_error"
              /\ logProc = "none"
              /\ stdout = <<>>
              /\ stderr = <<"notfound">>
              /\ exits = <<RuntimeNotFoundExit>>

\* the runtime name designates nothing: one log command was tried and failed,
\* then the lookup failed and the bridge exited
UnresolvableAfterOneLogAttempt ==
    /\ pc = "exited"
    /\ docker = ""
    /\ Len(args) >= 3
    /\ Len(logCalls) = 1
    /\ logCalls[1].name = ""
    /\ runErr = "start_error"
    /\ Len(lookCalls) = 1
    /\ ~lookCalls[1].ok
    /\ exits = <<RuntimeNotFoundExit>>

\* C22: nothing main() prints goes to descriptor 1.  Every write on stdout
\* was made by the log subprocess or by the attach program; stderr holds
\* exactly the messages of main(), one per exit, each matching its status
\* (usage, runtime not found, exec failed).
BridgeSilentOnStdout ==
    /\ \A i \in 1..Len(stdout) : stdout[i].by \in {"log", "attach"}
    /\ Len(stderr) = Len(exits)
    /\ \A i \in 1..Len(stderr) :
          \/ stderr[i] = "usage" /\ exits[i] = UsageExit
          \/ stderr[i] = "notfound" /\ exits[i] = RuntimeNotFoundExit
          \/ stderr[i] = "execfailed" /\ exits[i] = ExecFailedExit
    /\ pc = "exited" => Len(stderr) = 1

\* the replay wrote on stdout, then the lookup failed and main() wrote its
\* message
ReplayOnStdoutMessageOnStderr ==
    /\ pc = "exited"
    /\ stderr = <<"notfound">>
    /\ stdout # <<>>
    /\ \A i \in 1..Len(stdout) : stdout[i].by = "log"

\* the arguments main() reads: the program name, the container, the runtime
ReadArgs == SubSeq(args, 1, IF Len(args) < 3 THEN Len(args) ELSE 3)

\* C23: arguments after the second are ignored.  Everything the bridge
\* decides and issues is a function of the program name, the first and the
\* second argument, and of what the runtime did: the two locals, the log
\* command, the lookup, the attach command, and the terminal state with its
\* status.  Two invocations that agree on those arguments therefore issue the
\* same invocations and, when the runtime behaves the same, end the same.
ExtraArgsIgnored ==
    Len(args) >= 2 =>
      LET a  == ReadArgs
          c  == a[2]
          rt == IF Len(a) >= 3 THEN a[3] ELSE "/opt/saba-chan/docker/docker"
      IN  /\ pc # "start" => container = c /\ docker = rt
          /\ \A i \in 1..Len(logCalls) :
                /\ logCalls[i].name = rt
                /\ logCalls[i].argv = <<"logs", "--tail", "200", "--timestamps", c>>
          /\ \A i \in 1..Len(lookCalls) : lookCalls[i].file = rt
          /\ \A i \in 1..Len(execCalls) :
                execCalls[i].argv = <<rt, "attach", "--sig-proxy=false", c>>
          /\ \A k \in 4..Len(args) :
                /\ container # args[k]
                /\ docker # args[k]
                /\ \A i \in 1..Len(execCalls) :
                      \A j \in 1..Len(execCalls[i].argv) : execCalls[i].argv[j] # args[k]
          /\ pc = "replaced" <=>
                (Len(lookCalls) = 1 /\ lookCalls[1].ok /\ Len(execCalls) = 1 /\ exits = <<>>)
          /\ pc = "exited" <=>
                \/ Len(lookCalls) = 1 /\ ~lookCalls[1].ok /\ execCalls = <<>>
                     /\ exits = <<RuntimeNotFoundExit>>
                \/ Len(lookCalls) = 1 /\ lookCalls[1].ok /\ Len(execCalls) = 1
                     /\ exits = <<ExecFailedExit>>

\* four arguments were given and the attach program runs on the first two
ExtraArgGivenAndAttached ==
    /\ Len(args) = 4
    /\ pc = "replaced"
    /\ Len(logCalls) = 1
    /\ logCalls[1].name = args[3]
    /\ execCalls[1].argv = <<args[3], "attach", "--sig-proxy=false", args[2]>>

\* C24: the status of step i of a rendered DockerProvision, for every
\* progress object: completed when the run is done without an error or i is
\* below the reported step; otherwise error or active when i is the reported
\* step, by whether an error is set; otherwise pending.  So at most one step
\* is active or error, every step before it is completed, and when no step
\* is reported and the run is not done all steps are pending.
StepStatusRule ==
    (gui.op = "ServerCard" /\ gui.rendered /\ gui.provision.el # "null") =>
      LET p        == gui.provisionProgress
          cls      == gui.provision.steps
          reported == p.present /\ p.step.t = "number"
          errorSet == p.present /\ p.error.t = "string" /\ p.error.s # ""
          doneOk   == p.present /\ p.done = JSTrue /\ ~errorSet
          marked   == {i \in 1..Len(cls) : cls[i] \in {"active", "error"}}
      IN  /\ Len(cls) = Len(gui.provision.labels)
          /\ \A i \in 1..Len(cls) :
                cls[i] = IF doneOk \/ (reported /\ i - 1 < p.step.n) THEN "completed"
                         ELSE IF reported /\ i - 1 = p.step.n
                           THEN (IF errorSet THEN "error" ELSE "active")
                         ELSE "pending"
          /\ Cardinality(marked) <= 1
          /\ \A i \in marked : \A j \in 1..(i - 1) : cls[j] = "completed"
          /\ (~reported /\ ~doneOk) => \A i \in 1..Len(cls) : cls[i] = "pending"

\* the second of the three default steps failed
SecondStepFailed ==
    /\ gui.op = "ServerCard"
    /\ gui.rendered
    /\ gui.provision.el # "null"
    /\ gui.provisionProgress.step = Num(1)
    /\ gui.provision.steps = <<"completed", "error", "pending">>

\* C25: the header gauge and the provision panel of one server card never
\* both render: the gauge renders nothing while server.provisioning is
\* truthy, the panel renders nothing while it is falsy.
GaugeAndProvisionExclusive ==
    (gui.op = "ServerCard" /\ gui.rendered) =>
      /\ ~(gui.headerGauge.el # "null" /\ gui.provision.el # "null")
      /\ (gui.server.present /\ gui.server.provisioning = JSTrue) =>
            gui.headerGauge.el = "null"
      /\ (gui.server.present /\ gui.server.provisioning \in {Undefined, JSFalse}) =>
            gui.provision.el = "null"

\* a running Docker server with statistics is being provisioned: the panel
\* shows, the statistics row shows, the header gauge does not
ProvisioningHidesGauge ==
    /\ gui.op = "ServerCard"
    /\ gui.rendered
    /\ gui.server.provisioning = JSTrue
    /\ gui.provision.el # "null"
    /\ gui.expandedStats.el # "null"
    /\ gui.headerGauge.el = "null"

\* C26: a server-bound component renders nothing when there is no server or
\* its extension_data.docker_enabled is falsy.  The header gauge and the
\* statistics row render only for a server whose status is 'running' and
\* whose docker.memory_percent is neither null nor undefined; a
\* memory_percent of 0 renders.
DisabledRendersNothing ==
    LET sv      == gui.server
        enabled == sv.present /\ sv.ext /\ sv.docker_enabled = JSTrue
        hasMem  == sv.stats = "docker" /\ sv.memory_percent.t \notin {"undefined", "null"}
    IN  /\ (gui.op = "ServerCard" /\ gui.rendered) =>
              /\ ~enabled => /\ gui.headerGauge.el = "null"
                             /\ gui.expandedStats.el = "null"
                             /\ gui.provision.el = "null"
              /\ gui.headerGauge.el # "null" => sv.status = "running" /\ hasMem
              /\ gui.expandedStats.el # "null" => sv.status = "running" /\ hasMem
              /\ (enabled /\ sv.status = "running" /\ sv.stats = "docker"
                    /\ sv.memory_percent = Num(0)) =>
                    /\ gui.expandedStats.el # "null"
                    /\ sv.provisioning # JSTrue => gui.headerGauge.el # "null"
        /\ (gui.op = "ServerSettings" /\ gui.rendered) =>
              (~enabled => gui.tab.el = "null" /\ ~gui.report.called)

\* a running Docker server reports a memory_percent of 0: gauge and row show
ZeroPercentRenders ==
    /\ gui.op = "ServerCard"
    /\ gui.rendered
    /\ gui.server.memory_percent = Num(0)
    /\ gui.headerGauge.el = "MemoryGauge"
    /\ gui.expandedStats.el = "docker-stats-row"
    /\ gui.expandedStats.gauge.pct = Num(0)

\* C27: an edit in DockerTab reports, under the name _extension_data, an
\* object that differs from the current extension data in the edited key
\* only (docker_cpu_limit or docker_memory_limit); an emptied field is
\* reported as null, a non-empty CPU field as the number it spells.
EditChangesOnlyItsKey ==
    (gui.op = "ServerSettings" /\ gui.report.called) =>
      LET old == IF gui.settings.present /\ gui.settings.ext_kind = "object"
                   THEN gui.settings.ext
                   ELSE [k \in ExtKeys |-> Absent]
          new == gui.report.value
          key == gui.change.key
          txt == gui.change.text
      IN  /\ gui.report.name = "_extension_data"
          /\ key = (IF gui.change.field = "cpu" THEN "docker_cpu_limit"
                                                ELSE "docker_memory_limit")
          /\ \A k \in ExtKeys \ {key} : new[k] = old[k]
          /\ txt = "" => new[key] = Null
          /\ (txt # "" /\ gui.change.field = "cpu") =>
                /\ new[key].t = "number"
                /\ new[key].n = (IF txt = "0" THEN 0 ELSE IF txt = "2" THEN 2 ELSE 16)
          /\ (txt # "" /\ gui.change.field = "memory") => new[key] = Str(txt)

\* the CPU field is emptied while the extension data hold a memory limit and
\* an image
CpuEmptiedOthersKept ==
    /\ gui.op = "ServerSettings"
    /\ gui.report.called
    /\ gui.change.field = "cpu"
    /\ gui.change.text = ""
    /\ gui.settings.ext["docker_cpu_limit"] = Num(2)
    /\ gui.report.value["docker_cpu_limit"] = Null
    /\ gui.report.value["docker_memory_limit"] = Str("4g")
    /\ gui.report.value["docker_image"] = Str("img")

\* C28 as stated: for every input the clamped percent is a number from 0 to
\* 100, the colour is green below 60, orange from 60 to below 85 and red from
\* 85, and the value arc is drawn only for a clamped percent above 0.
GaugeClampsEveryInput ==
    (gui.op = "MemoryGauge" /\ gui.rendered) =>
      /\ gui.out.pct.t = "number"
      /\ gui.out.pct.n >= 0
      /\ gui.out.pct.n <= 100
      /\ gui.out.color = (IF gui.out.pct.n < 60 THEN "#4caf50"
                          ELSE IF gui.out.pct.n < 85 THEN "#ff9800"
                          ELSE "#f44336")
      /\ gui.out.valArc.drawn => gui.out.pct.n > 0

\* C28, amended: for every percent that is a number other than NaN, an
\* omitted percent and null counting as 0, the clamped percent is that
\* number brought into 0..100, the colour is green below 60, orange from 60
\* to below 85 and red from 85, and the value arc is drawn exactly when the
\* clamped percent is above 0.  A NaN percent stays NaN: the gauge is red
\* and no value arc is drawn.
GaugeClampsNumbers ==
    (gui.op = "MemoryGauge" /\ gui.rendered) =>
      LET given == IF gui.percent.t = "number" THEN gui.percent.n ELSE 0
          c     == IF given < 0 THEN 0 ELSE IF given > 100 THEN 100 ELSE given
      IN  IF gui.percent.t = "NaN"
            THEN /\ gui.out.pct.t = "NaN"
                 /\ gui.out.color = "#f44336"
                 /\ ~gui.out.valArc.drawn
            ELSE /\ gui.out.pct = Num(c)
                 /\ gui.out.color = (IF c < 60 THEN "#4caf50"
                                     ELSE IF c < 85 THEN "#ff9800"
                                     ELSE "#f44336")
                 /\ gui.out.valArc.drawn <=> c > 0
                 /\ gui.out.valArc.drawn => gui.out.valArc.to = Num(c)

\* a percent above the scale is drawn as 100, in red, with its arc
AboveScaleClamped ==
    /\ gui.op = "MemoryGauge"
    /\ gui.rendered
    /\ gui.percent.t = "number"
    /\ gui.percent.n > 100
    /\ gui.out.pct = Num(100)
    /\ gui.out.color = "#f44336"
    /\ gui.out.valArc.drawn

====
